---- MODULE Spec2Model ----
(***************************************************************************)
(* Podcast-Rag-Pipeline: the transcription scripts.                        *)
(*                                                                         *)
(*   transcribe_with_speakers.py  transcribe_audio / process_audio_folder  *)
(*   transcribe.py                transcribe_audio / process_audio_folder  *)
(*                                                                         *)
(* Times are counted in half seconds (a time t stands for t/2 seconds), so *)
(* that the halves round() treats specially occur; halves are exact in     *)
(* binary floating point, so the arithmetic below is the code's.           *)
(***************************************************************************)
EXTENDS Integers, Sequences, FiniteSets, TLC

VARIABLES
    with_diarization,   \* the mode flag of the run
    result,             \* result["segments"] of the ASR collaborator
    speaker_segments,   \* the diarization turns, in itertracks order
    final_transcript,   \* the transcript under construction
    pc,                 \* position inside process_audio_folder / transcribe_audio
    script,             \* the script whose process_audio_folder runs
    hf_token,           \* whether the environment (.env) holds HF_TOKEN
    listing,            \* os.listdir(input_dir)
    audio_files,        \* the eligible names of the listing, in its order
    idx,                \* position of the for loop in audio_files
    fs,                 \* the files below the output directory: path -> content
    log,                \* collaborator invocations of the current run, in order
    outcome,            \* how the current run ended
    runs,               \* number of runs started
    prev,               \* script, mode and outcome of the run before
    self,               \* the worker whose process_audio_folder is executing
    other,              \* the local state of the worker that is not executing
    video_path,         \* the argument of main.process_video
    audio_ok,           \* whether the audio file of the video can be read
    pbar,               \* n of the tqdm bar of main.process_video
    reported,           \* the values passed to progress_callback, in order
    model_name,         \* load_whisper_model_with_retry: the name it will load next
    max_retries,        \* its argument max_retries
    attempt,            \* the loop variable of its for loop
    ssl_fixed,          \* whether fix_ssl_certificate has been called
    load_calls,         \* the calls of whisper.load_model: <<name, outcome>>, in order
    model,              \* what the function returned
    lpc,                \* position inside the function and its caller
    vector_store,       \* ResponsesAPIRAG.vector_store (its id, or "None")
    uploaded_files,     \* ResponsesAPIRAG.uploaded_files (the file ids)
    conversation_history, \* ResponsesAPIRAG.conversation_history
    returned,           \* the last method called on the object and its result
    sent                \* the history messages sent with the last query

mergeVars == <<with_diarization, result, speaker_segments, final_transcript, pc>>

batchVars == <<script, hf_token, listing, audio_files, idx, fs, log, outcome, runs, prev>>

workerVars == <<self, other>>

videoVars == <<video_path, audio_ok, pbar, reported>>

loaderVars == <<model_name, max_retries, attempt, ssl_fixed, load_calls, model, lpc>>

ragVars == <<vector_store, uploaded_files, conversation_history, returned, sent>>

vars == <<mergeVars, batchVars, workerVars, videoVars, loaderVars, ragVars>>

----------------------------------------------------------------------------
(* Bounds of the model *)

MaxTime == 3       \* latest time of a turn, and of the segment matched against turns
MaxTurns == 2      \* longest list of turns a segment is matched against
MaxSegs == 2       \* longest list of ASR segments merged
MaxSegTime == 2    \* latest time of a segment of such a list
MaxFiles == 2      \* most names in the input directory
MaxRuns == 2       \* most runs of process_audio_folder in a behaviour

Times == 0..MaxTime
Speakers == {"SPEAKER_00", "SPEAKER_01"}
Texts == {" hello", "world\n"}

\* segments and turns as the collaborators produce them: 0 <= start <= end
SegmentsWithin(T) == {s \in [start : T, end : T, text : Texts] : s.start <= s.end}
SegmentValues == SegmentsWithin(0..MaxSegTime)
MatchSegmentValues == {s \in SegmentsWithin(Times) : s.text = " hello"}
TurnValues == {t \in [start : Times, end : Times, speaker : Speakers] : t.start <= t.end}

SeqsUpTo(S, n) == UNION {[1..k -> S] : k \in 0..n}

\* the diarizations the merge of a whole list is run against
MergeTurnLists == {<<>>} \cup {<<t>> : t \in TurnValues}

----------------------------------------------------------------------------
(* Python built-ins the scripts use *)

Min2(a, b) == IF a <= b THEN a ELSE b
Max2(a, b) == IF a >= b THEN a ELSE b

Whitespace == {" ", "\t", "\n"}

\* str.strip(): leading and trailing whitespace removed
RECURSIVE LStrip(_)
LStrip(s) ==
    IF Len(s) > 0 /\ SubSeq(s, 1, 1) \in Whitespace
    THEN LStrip(SubSeq(s, 2, Len(s)))
    ELSE s

RECURSIVE RStrip(_)
RStrip(s) ==
    IF Len(s) > 0 /\ SubSeq(s, Len(s), Len(s)) \in Whitespace
    THEN RStrip(SubSeq(s, 1, Len(s) - 1))
    ELSE s

Strip(s) == RStrip(LStrip(s))

\* round(x) of a float given in half seconds: to the nearest integer, a half
\* to the even neighbour
PyRound(t) ==
    LET q == t \div 2
    IN  IF t % 2 = 0 THEN q
        ELSE IF q % 2 = 0 THEN q ELSE q + 1

Pad2(n) == IF n < 10 THEN "0" \o ToString(n) ELSE ToString(n)

\* str(timedelta(seconds=r)) for an integer r
TimedeltaStr(r) ==
    LET days == r \div 86400
        rest == r % 86400
        hh   == rest \div 3600
        mm   == (rest % 3600) \div 60
        ss   == rest % 60
        hms  == ToString(hh) \o ":" \o Pad2(mm) \o ":" \o Pad2(ss)
    IN  IF days = 0 THEN hms
        ELSE IF days = 1 \/ days = -1 THEN ToString(days) \o " day, " \o hms
        ELSE ToString(days) \o " days, " \o hms

format_timestamp(seconds) == TimedeltaStr(PyRound(seconds))

----------------------------------------------------------------------------
(* transcribe_with_speakers.transcribe_audio: the merge *)

OverlapKeySpan(s, segment_start, segment_end) ==
    Max2(s.end, segment_end) - Min2(s.start, segment_start)

OverlapKeyNoMin(s, segment_start, segment_end) ==
    s.end - Max2(s.start, segment_start)

\* the key of max(): min(s["end"], segment_end) - max(s["start"], segment_start)
OverlapKey(s, segment_start, segment_end) ==
    Min2(s.end, segment_end) - Max2(s.start, segment_start)

IsOverlappingStartOnly(s, segment_start, segment_end) ==
    s.start <= segment_end

\* the filter of the list comprehension
IsOverlapping(s, segment_start, segment_end) ==
    s.start <= segment_end /\ s.end >= segment_start

overlapping_speakers(turns, segment_start, segment_end) ==
    SelectSeq(turns, LAMBDA s : IsOverlapping(s, segment_start, segment_end))

\* one comparison of max(): the running best is replaced only by a strictly
\* larger key, so the first of several maximal elements is returned
PyMaxKeepsLast(new, best) == new >= best

PyMaxKeepsFirst(new, best) == FALSE

PyMaxReplaces(new, best) == new > best

RECURSIVE PyMaxFrom(_, _, _, _, _)
PyMaxFrom(seq, segment_start, segment_end, i, best) ==
    IF i > Len(seq) THEN best
    ELSE PyMaxFrom(seq, segment_start, segment_end, i + 1,
            IF PyMaxReplaces(OverlapKey(seq[i], segment_start, segment_end),
                             OverlapKey(seq[best], segment_start, segment_end))
            THEN i ELSE best)

\* index in seq (non-empty) of max(seq, key=...)
PyMaxIndex(seq, segment_start, segment_end) ==
    PyMaxFrom(seq, segment_start, segment_end, 2, 1)

SpeakerOfDefaultsLowercase(segment, turns) ==
    LET cands == overlapping_speakers(turns, segment.start, segment.end)
    IN  IF cands # <<>>
        THEN cands[PyMaxIndex(cands, segment.start, segment.end)].speaker
        ELSE "Unknown"

\* lines 99-116: the speaker given to one ASR segment
SpeakerOf(segment, turns) ==
    LET cands == overlapping_speakers(turns, segment.start, segment.end)
    IN  IF cands # <<>>
        THEN cands[PyMaxIndex(cands, segment.start, segment.end)].speaker
        ELSE "UNKNOWN"

\* lines 118-123: the record appended for one ASR segment
AttributedRecord(segment, turns) ==
    [start   |-> format_timestamp(segment.start),
     end     |-> format_timestamp(segment.end),
     speaker |-> SpeakerOf(segment, turns),
     text    |-> Strip(segment.text)]

\* lines 68-72: the record of the simple transcript
SimpleRecord(segment) ==
    [start |-> format_timestamp(segment.start),
     end   |-> format_timestamp(segment.end),
     text  |-> Strip(segment.text)]

MergeSegmentPrepends ==
    /\ pc = "merge"
    /\ script = "transcribe_with_speakers"
    /\ with_diarization
    /\ Len(final_transcript) < Len(result)
    /\ final_transcript' =
          <<AttributedRecord(result[Len(final_transcript) + 1], speaker_segments)>>
             \o final_transcript
    /\ UNCHANGED <<with_diarization, result, speaker_segments, pc, batchVars>>
    /\ UNCHANGED <<workerVars, videoVars, loaderVars, ragVars>>

\* one iteration of the loop of lines 98-123
MergeSegment ==
    /\ pc = "merge"
    /\ script = "transcribe_with_speakers"
    /\ with_diarization
    /\ Len(final_transcript) < Len(result)
    /\ final_transcript' =
          Append(final_transcript,
                 AttributedRecord(result[Len(final_transcript) + 1], speaker_segments))
    /\ UNCHANGED <<with_diarization, result, speaker_segments, pc, batchVars>>
    /\ UNCHANGED <<workerVars, videoVars, loaderVars, ragVars>>

\* the loop of lines 98-123 is exhausted
MergeDone ==
    /\ pc = "merge"
    /\ script = "transcribe_with_speakers"
    /\ with_diarization
    /\ Len(final_transcript) = Len(result)
    /\ pc' = "save"
    /\ UNCHANGED <<with_diarization, result, speaker_segments, final_transcript, batchVars>>
    /\ UNCHANGED <<workerVars, videoVars, loaderVars, ragVars>>

\* lines 65-74: the transcript of simple mode
SimpleTranscript ==
    /\ pc = "merge"
    /\ script = "transcribe_with_speakers"
    /\ ~with_diarization
    /\ final_transcript' = [i \in 1..Len(result) |-> SimpleRecord(result[i])]
    /\ pc' = "save"
    /\ UNCHANGED <<with_diarization, result, speaker_segments, batchVars>>
    /\ UNCHANGED <<workerVars, videoVars, loaderVars, ragVars>>

----------------------------------------------------------------------------
(* The matching of one segment against a list of turns *)

NoRun == [script |-> "none", with_diarization |-> FALSE, outcome |-> "none"]

\* a single process runs the script
NoWorker == [pc |-> "none"]

OneWorker ==
    /\ self = 1
    /\ other = NoWorker

\* main.process_video is not running
\* load_whisper_model_with_retry is not running
NoLoader ==
    /\ model_name = "medium"
    /\ max_retries = 3
    /\ attempt = 0
    /\ ssl_fixed = FALSE
    /\ load_calls = <<>>
    /\ model = "none"
    /\ lpc = "none"

\* no ResponsesAPIRAG has been constructed
NoRag ==
    /\ vector_store = "None"
    /\ uploaded_files = <<>>
    /\ conversation_history = <<>>
    /\ returned = [call |-> "none"]
    /\ sent = <<>>

NoVideo ==
    /\ video_path = ""
    /\ audio_ok = FALSE
    /\ pbar = 0
    /\ reported = <<>>

\* transcribe_audio of transcribe_with_speakers.py called on its own
BatchVarsAtCall ==
    /\ script = "transcribe_with_speakers"
    /\ hf_token = TRUE
    /\ listing = <<>>
    /\ audio_files = <<>>
    /\ idx = 1
    /\ fs = <<>>
    /\ log = <<>>
    /\ outcome = "none"
    /\ runs = 0
    /\ prev = NoRun

InitMatch ==
    /\ BatchVarsAtCall
    /\ OneWorker
    /\ NoVideo
    /\ NoLoader
    /\ NoRag
    /\ with_diarization = TRUE
    /\ result \in [1..1 -> MatchSegmentValues]
    /\ speaker_segments \in SeqsUpTo(TurnValues, MaxTurns)
    /\ final_transcript = <<>>
    /\ pc = "merge"

NextMatch == MergeSegment \/ MergeDone

SpecMatch == InitMatch /\ [][NextMatch]_vars

(* The merge of a list of segments, in either mode *)

InitMerge ==
    /\ BatchVarsAtCall
    /\ OneWorker
    /\ NoVideo
    /\ NoLoader
    /\ NoRag
    /\ with_diarization \in BOOLEAN
    /\ result \in SeqsUpTo(SegmentValues, MaxSegs)
    /\ speaker_segments \in
          IF with_diarization THEN MergeTurnLists ELSE {<<>>}
    /\ final_transcript = <<>>
    /\ pc = "merge"

NextMerge == MergeSegment \/ MergeDone \/ SimpleTranscript

SpecMerge == InitMerge /\ [][NextMerge]_vars

----------------------------------------------------------------------------
(* os.path and str helpers of the batch *)

\* position of the last occurrence of the character c in s, 0 if none
RECURSIVE LastIndexFrom(_, _, _)
LastIndexFrom(s, c, i) ==
    IF i = 0 THEN 0
    ELSE IF SubSeq(s, i, i) = c THEN i
    ELSE LastIndexFrom(s, c, i - 1)

LastIndexOf(s, c) == LastIndexFrom(s, c, Len(s))

\* os.path.join(a, b) for a relative b
PathJoin(a, b) == a \o "/" \o b

\* os.path.basename
Basename(path) == SubSeq(path, LastIndexOf(path, "/") + 1, Len(path))

\* os.path.splitext(path)[0]: the extension starts at the last dot of the last
\* component, unless only dots precede it there
SplitextRoot(path) ==
    LET sep == LastIndexOf(path, "/")
        dot == LastIndexOf(path, ".")
    IN  IF dot > sep /\ (\E k \in (sep + 1)..(dot - 1) : SubSeq(path, k, k) # ".")
        THEN SubSeq(path, 1, dot - 1)
        ELSE path

\* str.endswith
EndsWith(s, suffix) ==
    /\ Len(s) >= Len(suffix)
    /\ SubSeq(s, Len(s) - Len(suffix) + 1, Len(s)) = suffix

AudioExtensions == {".wav", ".mp3", ".m4a", ".flac"}

IsAudioName(f) == \E e \in AudioExtensions : EndsWith(f, e)

\* the batch is run on its default directories, so the output directory of
\* process_audio_folder is the "transcripts" that transcribe.py writes into
DEFAULT_AUDIO_DIR == "audio"
DEFAULT_TRANSCRIPTS_DIR == "transcripts"

OutputSuffix(mode) == IF mode THEN "with_speakers" ELSE "simple"

\* process_audio_folder (both scripts): the file whose existence skips an item
MarkerFile(audio_file, mode) ==
    PathJoin(DEFAULT_TRANSCRIPTS_DIR,
             SplitextRoot(audio_file) \o "_" \o OutputSuffix(mode) \o ".json")

TwsOutputFileNoSuffix(audio_path, mode) ==
    PathJoin(DEFAULT_TRANSCRIPTS_DIR, SplitextRoot(Basename(audio_path)) \o ".json")

\* transcribe_with_speakers.transcribe_audio: the file it writes
TwsOutputFile(audio_path, mode) ==
    PathJoin(DEFAULT_TRANSCRIPTS_DIR,
             SplitextRoot(Basename(audio_path)) \o "_" \o OutputSuffix(mode) \o ".json")

\* transcribe.transcribe_audio: the file it writes
TOutputFile(audio_path, mode) ==
    PathJoin("transcripts", SplitextRoot(Basename(audio_path)) \o ".json")

----------------------------------------------------------------------------
(* transcribe.transcribe_audio: its transcript *)

Digits == 0..9

DigitOf(c) == CHOOSE d \in Digits : ToString(d) = c

\* float() of a string of decimal digits
RECURSIVE ParseDigits(_, _)
ParseDigits(s, acc) ==
    IF Len(s) = 0 THEN acc
    ELSE ParseDigits(SubSeq(s, 2, Len(s)), 10 * acc + DigitOf(SubSeq(s, 1, 1)))

\* float(ts.split(":")[-1]), in half seconds
LastFieldTime(ts) ==
    2 * ParseDigits(SubSeq(ts, LastIndexOf(ts, ":") + 1, Len(ts)), 0)

\* lines 129-136: the record of one segment, before the speakers are matched
TSegmentData(segment) ==
    [start   |-> format_timestamp(segment.start),
     end     |-> format_timestamp(segment.end),
     text    |-> Strip(segment.text),
     speaker |-> "Unknown"]

\* lines 154-161: the labels of the turns found for a record, one per turn
TSpeakers(segment_data, turns) ==
    LET start_time == LastFieldTime(segment_data.start)
        end_time   == LastFieldTime(segment_data.end)
        found == SelectSeq(turns, LAMBDA t : t.start <= end_time /\ t.end >= start_time)
    IN  [j \in DOMAIN found |-> found[j].speaker]

CountOf(speakers, sp) == Cardinality({j \in DOMAIN speakers : speakers[j] = sp})

\* line 165: max(set(speakers), key=speakers.count) returns the first most
\* common label in the iteration order of the set, which the hash seed of the
\* process decides: any most common label
TMostCommon(speakers) ==
    {speakers[j] : j \in {j \in DOMAIN speakers :
        \A k \in DOMAIN speakers :
            CountOf(speakers, speakers[k]) <= CountOf(speakers, speakers[j])}}

TSpeakerChoices(segment_data, turns) ==
    IF TSpeakers(segment_data, turns) # <<>>
    THEN TMostCommon(TSpeakers(segment_data, turns))
    ELSE {segment_data.speaker}

\* lines 127-168: the segments list, and the speakers matched in diarization mode
TBuildTranscript ==
    /\ pc = "merge"
    /\ script = "transcribe"
    /\ \E c \in [DOMAIN result -> Speakers \cup {"Unknown"}] :
          /\ \A i \in DOMAIN result :
                c[i] \in IF with_diarization
                         THEN TSpeakerChoices(TSegmentData(result[i]), speaker_segments)
                         ELSE {"Unknown"}
          /\ final_transcript' =
                [i \in DOMAIN result |-> [TSegmentData(result[i]) EXCEPT !.speaker = c[i]]]
    /\ pc' = "save"
    /\ UNCHANGED <<with_diarization, result, speaker_segments, batchVars>>
    /\ UNCHANGED <<workerVars, videoVars, loaderVars, ragVars>>

----------------------------------------------------------------------------
(* process_audio_folder and the collaborator calls of transcribe_audio *)

Scripts == {"transcribe_with_speakers", "transcribe"}

DirNames == {"a.wav", "a.mp3", "b.flac", "notes.txt"}

\* the directory listings: distinct names, in any order
Listings ==
    {l \in SeqsUpTo(DirNames, MaxFiles) : \A i, j \in DOMAIN l : i # j => l[i] # l[j]}

\* what the ASR collaborator may return
AsrResults ==
    { <<[start |-> 0, end |-> 4, text |-> " hello"],
        [start |-> 4, end |-> 8, text |-> " world"]>>,
      <<[start |-> 1, end |-> 3, text |-> " hi "]>> }

\* what the diarization collaborator may return
DiarResults ==
    { <<[start |-> 0, end |-> 6, speaker |-> "SPEAKER_00"],
        [start |-> 6, end |-> 8, speaker |-> "SPEAKER_01"]>> }

audio_file == audio_files[idx]

audio_path == PathJoin(DEFAULT_AUDIO_DIR, audio_file)

\* the file the running transcribe_audio writes
OutputFile ==
    IF script = "transcribe_with_speakers"
    THEN TwsOutputFile(audio_path, with_diarization)
    ELSE TOutputFile(audio_path, with_diarization)

Exists(path) == path \in DOMAIN fs

\* open(path, "w"): the file is created or truncated
Truncated(path) ==
    [complete |-> FALSE, data |-> <<>>, source |-> audio_file]

Written(path) ==
    [complete |-> TRUE, data |-> final_transcript, source |-> audio_file]

WithFile(path, content) ==
    [q \in DOMAIN fs \cup {path} |-> IF q = path THEN content ELSE fs[q]]

\* an exception leaves transcribe_audio and, uncaught, process_audio_folder
Raise ==
    /\ pc' = "idle"
    /\ outcome' = "failed"

\* process_audio_folder up to its loop (tws 147-156, transcribe 191-200)
StartRun ==
    /\ pc = "idle"
    /\ runs < MaxRuns
    /\ runs' = runs + 1
    /\ script' \in Scripts
    /\ with_diarization' \in BOOLEAN
    /\ prev' = IF runs = 0 THEN NoRun
               ELSE [script |-> script, with_diarization |-> with_diarization,
                     outcome |-> outcome]
    /\ log' = <<>>
    /\ audio_files' = SelectSeq(listing, IsAudioName)
    /\ idx' = 1
    /\ result' = <<>>
    /\ speaker_segments' = <<>>
    /\ final_transcript' = <<>>
    /\ IF audio_files' = <<>>
       THEN pc' = "idle" /\ outcome' = "completed"
       ELSE pc' = "loop" /\ outcome' = "running"
    /\ UNCHANGED <<hf_token, listing, fs>>
    /\ UNCHANGED <<workerVars, videoVars, loaderVars, ragVars>>

\* the transcript of the item exists: continue (tws 166-168, transcribe 210-212)
SkipItem ==
    /\ pc = "loop"
    /\ idx <= Len(audio_files)
    /\ Exists(MarkerFile(audio_file, with_diarization))
    /\ idx' = idx + 1
    /\ UNCHANGED <<mergeVars, script, hf_token, listing, audio_files, fs, log,
                   outcome, runs, prev>>
    /\ UNCHANGED <<workerVars, videoVars, loaderVars, ragVars>>

\* transcribe_audio is called for the item (tws 173, transcribe 217)
BeginItem ==
    /\ pc = "loop"
    /\ idx <= Len(audio_files)
    /\ ~Exists(MarkerFile(audio_file, with_diarization))
    /\ pc' = "asr"
    /\ result' = <<>>
    /\ speaker_segments' = <<>>
    /\ final_transcript' = <<>>
    /\ UNCHANGED <<with_diarization, batchVars>>
    /\ UNCHANGED <<workerVars, videoVars, loaderVars, ragVars>>

AsrOkAlwaysDiarizes ==
    /\ pc = "asr"
    /\ log' = Append(log, <<"asr", audio_file>>)
    /\ result' \in AsrResults
    /\ pc' = "diarize"
    /\ UNCHANGED <<with_diarization, speaker_segments, final_transcript, script, hf_token,
                   listing, audio_files, idx, fs, outcome, runs, prev>>
    /\ UNCHANGED <<workerVars, videoVars, loaderVars, ragVars>>

\* the Whisper model is loaded and transcribes (tws 50-63, transcribe 112-122)
AsrOk ==
    /\ pc = "asr"
    /\ log' = Append(log, <<"asr", audio_file>>)
    /\ result' \in AsrResults
    /\ pc' = IF with_diarization THEN "diarize" ELSE "merge"
    /\ UNCHANGED <<with_diarization, speaker_segments, final_transcript, script, hf_token,
                   listing, audio_files, idx, fs, outcome, runs, prev>>
    /\ UNCHANGED <<workerVars, videoVars, loaderVars, ragVars>>

\* loading the model or transcribing raises
AsrFail ==
    /\ pc = "asr"
    /\ log' = Append(log, <<"asr", audio_file>>)
    /\ Raise
    /\ UNCHANGED <<with_diarization, result, speaker_segments, final_transcript, script,
                   hf_token, listing, audio_files, idx, fs, runs, prev>>
    /\ UNCHANGED <<workerVars, videoVars, loaderVars, ragVars>>

\* the pyannote pipeline is loaded with the token and run (tws 78-92,
\* transcribe 141-147)
DiarizeOk ==
    /\ pc = "diarize"
    /\ hf_token
    /\ log' = Append(log, <<"diarize", audio_file>>)
    /\ speaker_segments' \in DiarResults
    /\ pc' = "merge"
    /\ UNCHANGED <<with_diarization, result, final_transcript, script, hf_token,
                   listing, audio_files, idx, fs, outcome, runs, prev>>
    /\ UNCHANGED <<workerVars, videoVars, loaderVars, ragVars>>

\* loading or running the pipeline raises; without the token it always does
DiarizeFail ==
    /\ pc = "diarize"
    /\ log' = Append(log, <<"diarize", audio_file>>)
    /\ Raise
    /\ UNCHANGED <<with_diarization, result, speaker_segments, final_transcript, script,
                   hf_token, listing, audio_files, idx, fs, runs, prev>>
    /\ UNCHANGED <<workerVars, videoVars, loaderVars, ragVars>>

\* open(output_file, "w") (tws 131, transcribe 172)
OpenOk ==
    /\ pc = "save"
    /\ fs' = WithFile(OutputFile, Truncated(OutputFile))
    /\ pc' = "dump"
    /\ UNCHANGED <<with_diarization, result, speaker_segments, final_transcript, script,
                   hf_token, listing, audio_files, idx, log, outcome, runs, prev>>
    /\ UNCHANGED <<workerVars, videoVars, loaderVars, ragVars>>

\* open raises: nothing is created
OpenFail ==
    /\ pc = "save"
    /\ Raise
    /\ UNCHANGED <<with_diarization, result, speaker_segments, final_transcript, script,
                   hf_token, listing, audio_files, idx, fs, log, runs, prev>>
    /\ UNCHANGED <<workerVars, videoVars, loaderVars, ragVars>>

\* json.dump and the close of the file succeed; transcribe_audio returns and
\* the loop goes on (tws 132-135 and 174, transcribe 173-179 and 218)
DumpOk ==
    /\ pc = "dump"
    /\ fs' = WithFile(OutputFile, Written(OutputFile))
    /\ idx' = idx + 1
    /\ pc' = "loop"
    /\ UNCHANGED <<with_diarization, result, speaker_segments, final_transcript, script,
                   hf_token, listing, audio_files, log, outcome, runs, prev>>
    /\ UNCHANGED <<workerVars, videoVars, loaderVars, ragVars>>

\* json.dump raises or is interrupted: the opened file stays as far as written
DumpFail ==
    /\ pc = "dump"
    /\ Raise
    /\ UNCHANGED <<with_diarization, result, speaker_segments, final_transcript, script,
                   hf_token, listing, audio_files, idx, fs, log, runs, prev>>
    /\ UNCHANGED <<workerVars, videoVars, loaderVars, ragVars>>

\* the loop is exhausted: process_audio_folder returns
EndRun ==
    /\ pc = "loop"
    /\ idx > Len(audio_files)
    /\ pc' = "idle"
    /\ outcome' = "completed"
    /\ UNCHANGED <<with_diarization, result, speaker_segments, final_transcript, script,
                   hf_token, listing, audio_files, idx, fs, log, runs, prev>>
    /\ UNCHANGED <<workerVars, videoVars, loaderVars, ragVars>>

InitBatch ==
    /\ with_diarization = FALSE
    /\ result = <<>>
    /\ speaker_segments = <<>>
    /\ final_transcript = <<>>
    /\ pc = "idle"
    /\ script = "none"
    /\ hf_token \in BOOLEAN
    /\ listing \in Listings
    /\ audio_files = <<>>
    /\ idx = 1
    /\ fs = <<>>
    /\ log = <<>>
    /\ outcome = "none"
    /\ runs = 0
    /\ prev = NoRun
    /\ OneWorker
    /\ NoVideo
    /\ NoLoader
    /\ NoRag

NextBatch ==
    \/ StartRun
    \/ SkipItem
    \/ BeginItem
    \/ AsrOk
    \/ AsrFail
    \/ DiarizeOk
    \/ DiarizeFail
    \/ MergeSegment
    \/ MergeDone
    \/ SimpleTranscript
    \/ TBuildTranscript
    \/ OpenOk
    \/ OpenFail
    \/ DumpOk
    \/ DumpFail
    \/ EndRun

SpecBatch == InitBatch /\ [][NextBatch]_vars

----------------------------------------------------------------------------
(* Properties of the merge *)

\* the segment a record of the transcript was built from
SegmentOf(i) == result[i]

\* overlap of the specification: max(0, min of the ends - max of the starts)
ClampedOverlap(t, segment) == Max2(0, OverlapKey(t, segment.start, segment.end))

\* the turns whose raw overlap with the segment is maximal over the whole list
MaximalTurns(turns, segment) ==
    {j \in DOMAIN turns :
        \A k \in DOMAIN turns :
            OverlapKey(turns[k], segment.start, segment.end)
                <= OverlapKey(turns[j], segment.start, segment.end)}

HasPositiveOverlap(turns, segment) ==
    \E j \in DOMAIN turns : OverlapKey(turns[j], segment.start, segment.end) > 0

FirstOf(S) == CHOOSE j \in S : \A k \in S : j <= k

\* C1: whenever some turn overlaps a segment positively, the speaker given to
\* the segment is the label of a turn whose overlap (min of the ends minus
\* max of the starts) is maximal over all the turns of the list.
C1_MaxOverlapSpeaker ==
    \A i \in DOMAIN final_transcript :
        HasPositiveOverlap(speaker_segments, SegmentOf(i)) =>
            \E j \in MaximalTurns(speaker_segments, SegmentOf(i)) :
                final_transcript[i].speaker = speaker_segments[j].speaker

\* a segment was matched against two turns of different speakers, both
\* overlapping it positively, the later one more
C1_Witness ==
    /\ Len(final_transcript) = 1
    /\ Len(speaker_segments) = 2
    /\ speaker_segments[1].speaker # speaker_segments[2].speaker
    /\ OverlapKey(speaker_segments[1], result[1].start, result[1].end) > 0
    /\ OverlapKey(speaker_segments[2], result[1].start, result[1].end)
          > OverlapKey(speaker_segments[1], result[1].start, result[1].end)
    /\ final_transcript[1].speaker = speaker_segments[2].speaker

C3_NoOverlapUnknown ==
    \A i \in DOMAIN final_transcript :
        (\A j \in DOMAIN speaker_segments :
            ClampedOverlap(speaker_segments[j], SegmentOf(i)) = 0)
        => final_transcript[i].speaker = "UNKNOWN"

\* C4: the transcript holds one record per ASR segment, in the order of the
\* ASR segments; record i carries the stripped text and the formatted start
\* and end of segment i, whatever the turns are and in either mode.
C4_OneRecordPerSegment ==
    /\ Len(final_transcript) <= Len(result)
    /\ pc = "save" => Len(final_transcript) = Len(result)
    /\ \A i \in DOMAIN final_transcript :
          /\ final_transcript[i].text = Strip(result[i].text)
          /\ final_transcript[i].start = format_timestamp(result[i].start)
          /\ final_transcript[i].end = format_timestamp(result[i].end)

\* two different segments, the later one first in time, were merged with a
\* turn that overlaps only one of them
C4_Witness ==
    /\ pc = "save"
    /\ with_diarization
    /\ Len(result) = 2
    /\ result[1].text # result[2].text
    /\ result[1].start > result[2].end
    /\ Len(speaker_segments) = 1
    /\ final_transcript[1].speaker = "UNKNOWN"
    /\ final_transcript[2].speaker # "UNKNOWN"
    /\ final_transcript[1].start = "0:00:01"
    /\ final_transcript[2].end = "0:00:00"

----------------------------------------------------------------------------
(* Properties of the batch *)

\* the run in progress, or just ended, repeats the script and mode of the run
\* before it, which ended without an error
RepeatsCompletedRun(s) ==
    /\ script = s
    /\ prev.script = s
    /\ prev.with_diarization = with_diarization
    /\ prev.outcome = "completed"

\* C5: a run of transcribe_with_speakers.process_audio_folder that follows a
\* run of the same script and mode over the same directories which ended
\* without an error invokes no collaborator and changes no file.
C5_SecondRunIdempotent ==
    [][RepeatsCompletedRun("transcribe_with_speakers")'
          => (log' = <<>> /\ fs' = fs)]_vars

\* the second run over two items of different stems has ended; both artifacts
\* of the first run are there and nothing was invoked
C5_Witness ==
    /\ pc = "idle"
    /\ runs = 2
    /\ outcome = "completed"
    /\ RepeatsCompletedRun("transcribe_with_speakers")
    /\ with_diarization
    /\ Len(audio_files) = 2
    /\ Cardinality(DOMAIN fs) = 2
    /\ \A p \in DOMAIN fs : fs[p].complete /\ fs[p].data # <<>>
    /\ log = <<>>

\* C6: a failure of one item is caught at the item: when a run has ended, no
\* item after a failed one was left unattempted.
C6_FailureIsolated ==
    (pc = "idle" /\ outcome = "failed") => idx >= Len(audio_files)

\* C7: in transcribe.py the file tested is the file written: a run that
\* repeats a run of the same mode which ended without an error skips every
\* item and invokes no collaborator.
C7_TranscribeSkipsProcessed ==
    RepeatsCompletedRun("transcribe") => log = <<>>

\* C8: an item of transcribe_with_speakers whose processing failed leaves no
\* artifact behind.
C8_NoArtifactAfterFailure ==
    (pc = "idle" /\ outcome = "failed" /\ script = "transcribe_with_speakers")
        => ~Exists(MarkerFile(audio_file, with_diarization))

\* no two eligible names of the directory share a stem, so one run writes each
\* output file at most once
StemsDistinct ==
    \A i, j \in DOMAIN listing :
        (i # j /\ IsAudioName(listing[i]) /\ IsAudioName(listing[j]))
            => SplitextRoot(listing[i]) # SplitextRoot(listing[j])

\* C9: a transcript artifact, once written, is not overwritten or modified by
\* a later run of either script in either mode.
C9_ArtifactNeverOverwritten ==
    [][StemsDistinct =>
          \A p \in DOMAIN fs :
              fs[p].complete => (p \in DOMAIN fs' /\ fs'[p] = fs[p])]_vars

\* C10: without HF_TOKEN a with_speakers run of transcribe_with_speakers is
\* aborted before any item is processed: when the run has ended on the error
\* of the diarization step, the ASR collaborator was invoked for no item.
C10_NoAsrWithoutToken ==
    (/\ script = "transcribe_with_speakers"
     /\ with_diarization
     /\ ~hf_token
     /\ pc = "idle"
     /\ outcome = "failed"
     /\ log # <<>>
     /\ log[Len(log)][1] = "diarize")
        => \A k \in DOMAIN log : log[k][1] # "asr"

----------------------------------------------------------------------------
(* Properties of the merge: empty and degenerate turns, the overlap measure *)

\* C13: with an empty list of turns the with-speakers merge runs to its end,
\* one record per segment, and every record has the speaker "UNKNOWN"
C13_EmptyTurnsAllUnknown ==
    (with_diarization /\ speaker_segments = <<>>) =>
        /\ \A i \in DOMAIN final_transcript : final_transcript[i].speaker = "UNKNOWN"
        /\ pc = "save" => Len(final_transcript) = Len(result)

C13_Witness ==
    /\ pc = "save"
    /\ with_diarization
    /\ speaker_segments = <<>>
    /\ Len(final_transcript) >= 2
    /\ final_transcript[2].speaker = "UNKNOWN"

\* overlap(a, b) of the specification
SpecOverlap(a, b) == Max2(0, Min2(a.end, b.end) - Max2(a.start, b.start))

\* the candidates of the segment matched, and the one max() returns
Candidates == overlapping_speakers(speaker_segments, result[1].start, result[1].end)

Selected == Candidates[PyMaxIndex(Candidates, result[1].start, result[1].end)]

\* C14: a turn of zero length has overlap 0 with the segment, by the key of
\* max() wherever it is ranked; when another turn overlaps the segment
\* positively, the turn selected has positive length and positive overlap,
\* and its label is the speaker recorded.
C14_ZeroLengthTurnNeverOutranks ==
    /\ \A j \in DOMAIN speaker_segments :
          LET t == speaker_segments[j]
          IN  t.start = t.end =>
                /\ SpecOverlap(t, result[1]) = 0
                /\ IsOverlapping(t, result[1].start, result[1].end) =>
                      OverlapKey(t, result[1].start, result[1].end) = 0
    /\ (pc = "save"
          /\ \E j \in DOMAIN speaker_segments :
                SpecOverlap(speaker_segments[j], result[1]) > 0) =>
          /\ Selected.start < Selected.end
          /\ SpecOverlap(Selected, result[1]) > 0
          /\ final_transcript[1].speaker = Selected.speaker

\* a zero-length turn inside the segment comes first in the list, a turn of
\* another speaker with positive overlap second, and the second is recorded
C14_Witness ==
    /\ pc = "save"
    /\ Len(speaker_segments) = 2
    /\ speaker_segments[1].start = speaker_segments[1].end
    /\ result[1].start < speaker_segments[1].start
    /\ speaker_segments[1].end < result[1].end
    /\ SpecOverlap(speaker_segments[2], result[1]) > 0
    /\ speaker_segments[1].speaker = "SPEAKER_01"
    /\ speaker_segments[2].speaker = "SPEAKER_00"
    /\ final_transcript[1].speaker = "SPEAKER_00"

Disjoint(a, b) == a.end < b.start \/ b.end < a.start

TouchAtOnePoint(a, b) == Max2(a.start, b.start) = Min2(a.end, b.end)

C16_OverlapSymmetric ==
    \A j \in DOMAIN speaker_segments :
        LET t   == speaker_segments[j]
            seg == result[1]
        IN  /\ OverlapKey(t, seg.start, seg.end) = OverlapKey(seg, t.start, t.end)
            /\ IsOverlapping(t, seg.start, seg.end) <=> IsOverlapping(seg, t.start, t.end)

\* a turn that starts before the segment and ends inside it was matched
C16_Witness ==
    /\ pc = "save"
    /\ Len(speaker_segments) = 1
    /\ speaker_segments[1].start < result[1].start
    /\ result[1].start < speaker_segments[1].end
    /\ speaker_segments[1].end < result[1].end
    /\ final_transcript[1].speaker = speaker_segments[1].speaker

\* C20: (word-level matching) a timed unit of text is given to a turn exactly
\* when its start lies in the turn, turn.start <= start <= turn.end; the
\* units transcribe_audio matches are the segments of the ASR result, and no
\* argument of it selects another matching
C20_WordLevelPointContainment ==
    pc = "save" =>
        LET unit == result[1]
            Containing == {j \in DOMAIN speaker_segments :
                              /\ speaker_segments[j].start <= unit.start
                              /\ unit.start <= speaker_segments[j].end}
        IN  IF final_transcript[1].speaker = "UNKNOWN"
            THEN Containing = {}
            ELSE \E j \in Containing :
                    final_transcript[1].speaker = speaker_segments[j].speaker

----------------------------------------------------------------------------
(* The records of the transcript written *)

\* C17: the records json.dump writes have the fields start, end and text, and
\* the field speaker in with_speakers mode only, in both scripts
C17_RecordFieldsByMode ==
    pc = "dump" =>
        \A i \in DOMAIN final_transcript :
            DOMAIN final_transcript[i] =
                IF with_diarization
                THEN {"start", "end", "speaker", "text"}
                ELSE {"start", "end", "text"}

----------------------------------------------------------------------------
(* format_timestamp on the times of long recordings *)

\* times in half seconds: 0 s, 0.5 s, 1 s, 1.5 s, 59.5 s, 60 s, 3599.5 s,
\* 3600 s, 86399.5 s, 86400 s, 86401.5 s and 172800 s
TimestampInputs ==
    {0, 1, 2, 3, 119, 120, 7199, 7200, 172799, 172800, 172803, 345600}

InitFormat ==
    /\ BatchVarsAtCall
    /\ OneWorker
    /\ NoVideo
    /\ NoLoader
    /\ NoRag
    /\ with_diarization \in BOOLEAN
    /\ result \in [1..1 -> {s \in [start : TimestampInputs, end : TimestampInputs,
                                    text : {" hello"}] : s.start <= s.end}]
    /\ speaker_segments = <<>>
    /\ final_transcript = <<>>
    /\ pc = "merge"

NextFormat == MergeSegment \/ MergeDone \/ SimpleTranscript

SpecFormat == InitFormat /\ [][NextFormat]_vars

\* H:MM:SS of r whole seconds: the hours unpadded, minutes and seconds of two digits
HMS(r) ==
    ToString(r \div 3600) \o ":" \o Pad2((r % 3600) \div 60) \o ":" \o Pad2(r % 60)

\* the whole seconds nearest to a time given in half seconds
NearestSeconds(t) == {r \in {t \div 2, t \div 2 + 1} : 2 * r - t \in {-1, 0, 1}}

\* C18: the timestamps of a record are the H:MM:SS renderings of the start
\* and the end of its segment, each rounded to a nearest whole second
C18_TimestampIsHMS ==
    \A i \in DOMAIN final_transcript :
        /\ \E r \in NearestSeconds(result[i].start) : final_transcript[i].start = HMS(r)
        /\ \E r \in NearestSeconds(result[i].end) : final_transcript[i].end = HMS(r)

----------------------------------------------------------------------------
(* Two workers: process_audio_folder invoked twice, concurrently, with the  *)
(* same input directory, output directory and mode.  The variables pc, idx, *)
(* result, speaker_segments, final_transcript and outcome are the locals of *)
(* the worker that executes; the file system and the log of collaborator    *)
(* invocations are shared.                                                  *)

Locals ==
    [pc |-> pc, idx |-> idx, result |-> result, speaker_segments |-> speaker_segments,
     final_transcript |-> final_transcript, outcome |-> outcome]

\* the scheduler takes the processor from one worker and gives it to the
\* other, which has not returned
Switch ==
    /\ other # NoWorker
    /\ other.pc # "idle"
    /\ self' = 3 - self
    /\ pc' = other.pc
    /\ idx' = other.idx
    /\ result' = other.result
    /\ speaker_segments' = other.speaker_segments
    /\ final_transcript' = other.final_transcript
    /\ outcome' = other.outcome
    /\ other' = Locals
    /\ UNCHANGED <<with_diarization, script, hf_token, listing, audio_files, fs, log,
                   runs, prev, videoVars>>
    /\ UNCHANGED <<loaderVars, ragVars>>

\* both workers have listed the input directory (lines 147-156) and stand
\* before the first iteration of the loop
InitWorkers ==
    /\ script = "transcribe_with_speakers"
    /\ with_diarization \in BOOLEAN
    /\ hf_token \in BOOLEAN
    /\ listing \in Listings
    /\ audio_files = SelectSeq(listing, IsAudioName)
    /\ idx = 1
    /\ result = <<>>
    /\ speaker_segments = <<>>
    /\ final_transcript = <<>>
    /\ IF audio_files = <<>>
       THEN pc = "idle" /\ outcome = "completed"
       ELSE pc = "loop" /\ outcome = "running"
    /\ fs = <<>>
    /\ log = <<>>
    /\ runs = 2
    /\ prev = NoRun
    /\ self = 1
    /\ other = Locals
    /\ NoVideo
    /\ NoLoader
    /\ NoRag

NextWorkers ==
    \/ Switch
    \/ SkipItem
    \/ BeginItem
    \/ AsrOk
    \/ AsrFail
    \/ DiarizeOk
    \/ DiarizeFail
    \/ MergeSegment
    \/ MergeDone
    \/ SimpleTranscript
    \/ OpenOk
    \/ OpenFail
    \/ DumpOk
    \/ DumpFail
    \/ EndRun

SpecWorkers == InitWorkers /\ [][NextWorkers]_vars

\* C19: the collaborators are run at most once for an output identifier: no
\* two ASR invocations of the two workers are for items with the same
\* transcript file
C19_AtMostOneWorkerPerOutput ==
    \A i, j \in DOMAIN log :
        (i # j /\ log[i][1] = "asr" /\ log[j][1] = "asr") =>
            MarkerFile(log[i][2], with_diarization) # MarkerFile(log[j][2], with_diarization)

----------------------------------------------------------------------------
(* main.process_video: the audio is extracted, then transcribe.transcribe_audio *)
(* runs with a progress callback that feeds the tqdm bar                        *)

VideoPaths == {"videos/talk.mp4", "videos/a.b.mkv", "clip.mov"}

\* main.py 63-66
PvAudioPath == PathJoin("audio", SplitextRoot(Basename(video_path)) \o ".wav")

PvOutputFile == TOutputFile(PvAudioPath, with_diarization)

\* main.py 74: tqdm(total=100)
pbar_total == 100

\* main.py 76
transcription_weight == IF ~with_diarization THEN 100 ELSE 40

ProgressAtSwapped(stage) ==
    CASE stage = "transcribed" -> 50
      [] stage = "diarized"    -> 90
      [] stage = "matched"     -> 75
      [] stage = "saved"       -> 100

\* the arguments of progress_callback in transcribe.py, lines 125, 150, 168, 176
ProgressAt(stage) ==
    CASE stage = "transcribed" -> 50
      [] stage = "diarized"    -> 75
      [] stage = "matched"     -> 90
      [] stage = "saved"       -> 100

\* progress_callback(x) is pbar.update(transcription_weight * x / 100), and
\* tqdm's update(n) adds n to the bar; the quotients that occur are whole
Report(x) ==
    /\ reported' = Append(reported, x)
    /\ pbar' = pbar + (transcription_weight * x) \div 100

\* an exception leaves transcribe_audio and process_video; the bar is closed
PvRaise ==
    /\ pc' = "pv_exit"
    /\ outcome' = "failed"

\* main.py 68-74: extract_audio returns True or, when ffmpeg fails, False; the
\* value is not looked at, and the bar is created.  After a failure the audio
\* path holds what it held before (a file of an earlier run, or nothing), or
\* nothing readable
ExtractAudio ==
    /\ pc = "pv_extract"
    /\ \/ /\ audio_ok' = TRUE
          /\ log' = Append(log, <<"extract", Basename(PvAudioPath)>>)
       \/ /\ audio_ok' \in {audio_ok, FALSE}
          /\ log' = Append(log, <<"extract_failed", Basename(PvAudioPath)>>)
    /\ pbar' = 0
    /\ pc' = "pv_asr"
    /\ UNCHANGED <<with_diarization, result, speaker_segments, final_transcript,
                   script, hf_token, listing, audio_files, idx, fs, outcome, runs, prev,
                   workerVars, video_path, reported>>
    /\ UNCHANGED <<loaderVars, ragVars>>

\* transcribe.py 112-136: Whisper transcribes, 50 is reported, the records are built
PvAsrOk ==
    /\ pc = "pv_asr"
    /\ audio_ok
    /\ log' = Append(log, <<"asr", Basename(PvAudioPath)>>)
    /\ result' \in AsrResults
    /\ Report(ProgressAt("transcribed"))
    /\ final_transcript' = [i \in DOMAIN result' |-> TSegmentData(result'[i])]
    /\ pc' = IF with_diarization THEN "pv_diarize" ELSE "pv_save"
    /\ UNCHANGED <<with_diarization, speaker_segments, script, hf_token, listing,
                   audio_files, idx, fs, outcome, runs, prev, workerVars, video_path,
                   audio_ok>>
    /\ UNCHANGED <<loaderVars, ragVars>>

\* loading the model or transcribing raises; without the audio file it always does
PvAsrFail ==
    /\ pc = "pv_asr"
    /\ log' = Append(log, <<"asr", Basename(PvAudioPath)>>)
    /\ PvRaise
    /\ UNCHANGED <<with_diarization, result, speaker_segments, final_transcript, script,
                   hf_token, listing, audio_files, idx, fs, runs, prev, workerVars,
                   videoVars>>
    /\ UNCHANGED <<loaderVars, ragVars>>

\* transcribe.py 138-150: the pipeline is loaded and run, 75 is reported
PvDiarizeOk ==
    /\ pc = "pv_diarize"
    /\ hf_token
    /\ log' = Append(log, <<"diarize", Basename(PvAudioPath)>>)
    /\ speaker_segments' \in DiarResults
    /\ Report(ProgressAt("diarized"))
    /\ pc' = "pv_match"
    /\ UNCHANGED <<with_diarization, result, final_transcript, script, hf_token, listing,
                   audio_files, idx, fs, outcome, runs, prev, workerVars, video_path,
                   audio_ok>>
    /\ UNCHANGED <<loaderVars, ragVars>>

PvDiarizeFail ==
    /\ pc = "pv_diarize"
    /\ log' = Append(log, <<"diarize", Basename(PvAudioPath)>>)
    /\ PvRaise
    /\ UNCHANGED <<with_diarization, result, speaker_segments, final_transcript, script,
                   hf_token, listing, audio_files, idx, fs, runs, prev, workerVars,
                   videoVars>>
    /\ UNCHANGED <<loaderVars, ragVars>>

\* transcribe.py 152-168: the speakers are matched, 90 is reported
PvMatchSpeakers ==
    /\ pc = "pv_match"
    /\ \E c \in [DOMAIN final_transcript -> Speakers \cup {"Unknown"}] :
          /\ \A i \in DOMAIN final_transcript :
                c[i] \in TSpeakerChoices(final_transcript[i], speaker_segments)
          /\ final_transcript' =
                [i \in DOMAIN final_transcript |->
                    [final_transcript[i] EXCEPT !.speaker = c[i]]]
    /\ Report(ProgressAt("matched"))
    /\ pc' = "pv_save"
    /\ UNCHANGED <<with_diarization, result, speaker_segments, batchVars, workerVars,
                   video_path, audio_ok>>
    /\ UNCHANGED <<loaderVars, ragVars>>

\* transcribe.py 170-179: the transcript is written, 100 is reported
PvSaveOk ==
    /\ pc = "pv_save"
    /\ fs' = WithFile(PvOutputFile,
                      [complete |-> TRUE, data |-> final_transcript,
                       source |-> Basename(PvAudioPath)])
    /\ Report(ProgressAt("saved"))
    /\ pc' = "pv_returned"
    /\ UNCHANGED <<with_diarization, result, speaker_segments, final_transcript, script,
                   hf_token, listing, audio_files, idx, log, outcome, runs, prev,
                   workerVars, video_path, audio_ok>>
    /\ UNCHANGED <<loaderVars, ragVars>>

\* open or json.dump raises: no file, or the opened file as far as written
PvSaveFail ==
    /\ pc = "pv_save"
    /\ fs' \in {fs, WithFile(PvOutputFile,
                              [complete |-> FALSE, data |-> <<>>,
                               source |-> Basename(PvAudioPath)])}
    /\ PvRaise
    /\ UNCHANGED <<with_diarization, result, speaker_segments, final_transcript, script,
                   hf_token, listing, audio_files, idx, log, runs, prev, workerVars,
                   videoVars>>
    /\ UNCHANGED <<loaderVars, ragVars>>

\* main.py 84-90: after transcribe_audio has returned
PvFinish ==
    /\ pc = "pv_returned"
    /\ pbar' = IF with_diarization THEN pbar + 60 ELSE pbar
    /\ pc' = "pv_exit"
    /\ outcome' = "completed"
    /\ UNCHANGED <<with_diarization, result, speaker_segments, final_transcript, script,
                   hf_token, listing, audio_files, idx, fs, log, runs, prev, workerVars,
                   video_path, audio_ok, reported>>
    /\ UNCHANGED <<loaderVars, ragVars>>

InitProgress ==
    /\ with_diarization \in BOOLEAN
    /\ result = <<>>
    /\ speaker_segments = <<>>
    /\ final_transcript = <<>>
    /\ pc = "pv_extract"
    /\ script = "main"
    /\ hf_token \in BOOLEAN
    /\ listing = <<>>
    /\ audio_files = <<>>
    /\ idx = 1
    /\ fs = <<>>
    /\ log = <<>>
    /\ outcome = "running"
    /\ runs = 0
    /\ prev = NoRun
    /\ OneWorker
    /\ video_path \in VideoPaths
    /\ audio_ok \in BOOLEAN
    /\ pbar = 0
    /\ reported = <<>>
    /\ NoLoader
    /\ NoRag

NextProgress ==
    \/ ExtractAudio
    \/ PvAsrOk
    \/ PvAsrFail
    \/ PvDiarizeOk
    \/ PvDiarizeFail
    \/ PvMatchSpeakers
    \/ PvSaveOk
    \/ PvSaveFail
    \/ PvFinish

SpecProgress == InitProgress /\ [][NextProgress]_vars

\* C11: after every report the bar shows the weight of the transcription
\* times the fraction reported (no phase is completed before it); it never
\* exceeds its total, and shows exactly the total when the run completes
C11_OverallProgress ==
    /\ pbar <= pbar_total
    /\ (reported # <<>> /\ pc # "pv_exit") =>
          pbar = (transcription_weight * reported[Len(reported)]) \div 100
    /\ (pc = "pv_exit" /\ outcome = "completed") => pbar = pbar_total

\* C12: the values passed to progress_callback are within 0..100 and never
\* decrease, the last one is 100 when transcribe_audio returns, and the bar
\* never goes back
C12_ProgressNonDecreasing ==
    [][/\ pbar' >= pbar
       /\ \A i \in DOMAIN reported' : reported'[i] \in 0..100
       /\ \A i, j \in DOMAIN reported' : i <= j => reported'[i] <= reported'[j]
       /\ pc' = "pv_returned" => reported'[Len(reported')] = 100]_vars

\* a run with diarization has completed: four values were reported
C12_Witness ==
    /\ pc = "pv_exit"
    /\ outcome = "completed"
    /\ with_diarization
    /\ reported = <<50, 75, 90, 100>>
    /\ pbar > 0

----------------------------------------------------------------------------
(* Properties of the items of transcribe_with_speakers.process_audio_folder *)

Tws == "transcribe_with_speakers"

\* C21: in a run of transcribe_with_speakers.process_audio_folder an item
\* that is not skipped has its ASR invocation first, then the diarization
\* exactly in with_speakers mode, then the merge, then the write, and the
\* loop moves to the next item only after the write; a skipped item invokes
\* no collaborator and writes nothing
C21_StepOrder ==
    [][(script' = Tws) =>
          /\ (pc = "loop" /\ pc' = "loop") => (log' = log /\ fs' = fs)
          /\ pc' = "asr" =>
                /\ pc = "loop"
                /\ \A k \in DOMAIN log : log[k][2] # audio_file
          /\ pc' = "diarize" =>
                /\ pc = "asr"
                /\ with_diarization
                /\ log' = Append(log, <<"asr", audio_file>>)
          /\ (pc' = "merge" /\ pc # "merge") =>
                IF with_diarization
                THEN /\ pc = "diarize"
                     /\ log[Len(log)] = <<"asr", audio_file>>
                     /\ log' = Append(log, <<"diarize", audio_file>>)
                ELSE /\ pc = "asr"
                     /\ log' = Append(log, <<"asr", audio_file>>)
          /\ (pc = "merge" /\ pc' = "merge") => log' = log
          /\ pc' = "save" =>
                /\ pc = "merge"
                /\ Len(final_transcript') = Len(result)
                /\ log' = log
                /\ \A k \in DOMAIN log :
                      (log[k][1] = "diarize") => with_diarization
          /\ pc' = "dump" => (pc = "save" /\ log' = log)
          /\ fs' # fs => pc \in {"save", "dump"}
          /\ idx' # idx => pc \in {"idle", "loop", "dump"}]_vars

\* an item was run in with_speakers mode to its end: ASR, diarization, merge
\* and write, and the loop stands at the next item
C21_Witness ==
    /\ script = Tws
    /\ with_diarization
    /\ pc = "loop"
    /\ idx = 2
    /\ Len(audio_files) = 2
    /\ log = <<<<"asr", audio_files[1]>>, <<"diarize", audio_files[1]>>>>
    /\ Exists(MarkerFile(audio_files[1], TRUE))
    /\ fs[MarkerFile(audio_files[1], TRUE)].complete

\* C27: an item is skipped only if the transcript found was written from that
\* same input file
C27_SkipOnlyOwnArtifact ==
    [][(script = Tws /\ pc = "loop" /\ pc' = "loop" /\ idx' = idx + 1) =>
          fs[MarkerFile(audio_file, with_diarization)].source = audio_file]_vars

----------------------------------------------------------------------------
(* Properties of main.process_video *)

\* C28: when extract_audio has reported failure, no transcription is
\* attempted on the audio path, no transcript is written and the run does
\* not end as completed
C28_NoTranscriptionAfterFailedExtraction ==
    (log # <<>> /\ log[1][1] = "extract_failed") =>
        /\ \A k \in DOMAIN log : log[k][1] # "asr"
        /\ fs = <<>>
        /\ ~(pc = "pv_exit" /\ outcome = "completed")

----------------------------------------------------------------------------
(* transcribe.load_whisper_model_with_retry and the use of its result *)

MaxRetries == 4    \* largest max_retries the function is called with

ModelNames == {"medium", "small", "base", "large"}

\* str(e) of the exceptions whisper.load_model may raise
ErrorMessages ==
    {"CERTIFICATE_VERIFY_FAILED", "SSL: WRONG_VERSION_NUMBER", "CUDA out of memory"}

\* sub in s
Contains(s, sub) ==
    \E k \in 1..(Len(s) - Len(sub) + 1) : SubSeq(s, k, k + Len(sub) - 1) = sub

\* line 67
IsSslError(msg) == Contains(msg, "CERTIFICATE_VERIFY_FAILED") \/ Contains(msg, "SSL")

\* lines 75-82
SmallerModel(name) ==
    IF name = "medium" THEN "small"
    ELSE IF name = "small" THEN "base"
    ELSE name

AttemptsLeftOneMore == attempt <= max_retries

\* line 60: for attempt in range(max_retries)
AttemptsLeft == attempt < max_retries

\* no process runs a transcription script
NoTranscription ==
    /\ with_diarization = TRUE
    /\ result = <<>>
    /\ speaker_segments = <<>>
    /\ final_transcript = <<>>
    /\ pc = "idle"
    /\ script = "none"
    /\ hf_token = TRUE
    /\ listing = <<>>
    /\ audio_files = <<>>
    /\ idx = 1
    /\ fs = <<>>
    /\ log = <<>>
    /\ outcome = "none"
    /\ runs = 0
    /\ prev = NoRun
    /\ OneWorker
    /\ NoVideo

\* lines 61-65: whisper.load_model returns, and so does the function
LoadOk ==
    /\ lpc = "loop"
    /\ AttemptsLeft
    /\ load_calls' = Append(load_calls, <<model_name, "ok">>)
    /\ model' = model_name
    /\ lpc' = "returned"
    /\ UNCHANGED <<model_name, max_retries, attempt, ssl_fixed>>
    /\ UNCHANGED <<mergeVars, batchVars, workerVars, videoVars, ragVars>>

\* lines 61-63 and 66-88: whisper.load_model raises
LoadFail ==
    /\ lpc = "loop"
    /\ AttemptsLeft
    /\ \E msg \in ErrorMessages :
          /\ load_calls' = Append(load_calls, <<model_name, msg>>)
          /\ IF IsSslError(msg) /\ attempt = 0
             THEN \* lines 69-72
                  /\ ssl_fixed' = TRUE
                  /\ attempt' = attempt + 1
                  /\ UNCHANGED <<model_name, lpc>>
             ELSE IF /\ IsSslError(msg)
                     /\ attempt < max_retries - 1
                     /\ model_name \in {"medium", "small"}
             THEN \* lines 73-82
                  /\ model_name' = SmallerModel(model_name)
                  /\ attempt' = attempt + 1
                  /\ UNCHANGED <<ssl_fixed, lpc>>
             ELSE IF attempt = max_retries - 1
             THEN \* lines 86-88
                  /\ lpc' = "raised"
                  /\ UNCHANGED <<model_name, attempt, ssl_fixed>>
             ELSE \* the next iteration
                  /\ attempt' = attempt + 1
                  /\ UNCHANGED <<model_name, ssl_fixed, lpc>>
    /\ UNCHANGED <<max_retries, model>>
    /\ UNCHANGED <<mergeVars, batchVars, workerVars, videoVars, ragVars>>

\* the for loop is exhausted: the function ends without a return statement
LoopExhausted ==
    /\ lpc = "loop"
    /\ ~AttemptsLeft
    /\ model' = "None"
    /\ lpc' = "returned"
    /\ UNCHANGED <<model_name, max_retries, attempt, ssl_fixed, load_calls>>
    /\ UNCHANGED <<mergeVars, batchVars, workerVars, videoVars, ragVars>>

\* transcribe_audio, lines 112-122: model.transcribe(...) on what was returned
ModelTranscribe ==
    /\ lpc = "returned"
    /\ lpc' = IF model = "None" THEN "caller_raised" ELSE "transcribing"
    /\ UNCHANGED <<model_name, max_retries, attempt, ssl_fixed, load_calls, model>>
    /\ UNCHANGED <<mergeVars, batchVars, workerVars, videoVars, ragVars>>

InitLoader ==
    /\ NoTranscription
    /\ NoRag
    /\ model_name \in ModelNames
    /\ max_retries \in 1..MaxRetries
    /\ attempt = 0
    /\ ssl_fixed = FALSE
    /\ load_calls = <<>>
    /\ model = "none"
    /\ lpc = "loop"

NextLoader == LoadOk \/ LoadFail \/ LoopExhausted \/ ModelTranscribe

\* the interpreter keeps executing the function
SpecLoader == InitLoader /\ [][NextLoader]_vars /\ WF_vars(NextLoader)

LastCall == load_calls[Len(load_calls)]

\* C22: the function terminates, with at most max_retries calls of
\* whisper.load_model; a call that succeeds is the last one, it is the only
\* one that succeeded, and its model is what is returned
C22_LoaderTerminates ==
    /\ [](Len(load_calls) <= max_retries)
    /\ <>(lpc # "loop")
    /\ []((load_calls # <<>> /\ LastCall[2] = "ok") =>
            /\ lpc # "loop"
            /\ model = LastCall[1]
            /\ \A k \in 1..(Len(load_calls) - 1) : load_calls[k][2] # "ok")
    /\ [][(load_calls # <<>> /\ LastCall[2] = "ok") => load_calls' = load_calls]_vars

\* two attempts failed, the third loaded the model and it is in use
C22_Witness ==
    /\ lpc = "transcribing"
    /\ Len(load_calls) = 3
    /\ load_calls[1][2] = "CUDA out of memory"
    /\ IsSslError(load_calls[2][2])
    /\ LastCall[2] = "ok"
    /\ model = LastCall[1]

SslCalls(calls) == {k \in DOMAIN calls : calls[k][2] # "ok" /\ IsSslError(calls[k][2])}

\* C23: the model name changes only after an SSL-class failure on an attempt
\* that is neither the first nor the last, and then one step along
\* medium -> small -> base; after the first SSL-class failure, when an attempt
\* is left, the SSL fix is applied and the same model is tried again; a
\* failure that is not of the SSL class leaves the model name alone
C23_ModelFallback ==
    [][(lpc = "loop" /\ load_calls' # load_calls) =>
          LET failed == load_calls'[Len(load_calls')][2]
          IN  /\ model_name' # model_name =>
                    /\ failed # "ok"
                    /\ IsSslError(failed)
                    /\ attempt # 0
                    /\ attempt # max_retries - 1
                    /\ <<model_name, model_name'>> \in
                          {<<"medium", "small">>, <<"small", "base">>}
              /\ (/\ SslCalls(load_calls) = {}
                  /\ SslCalls(load_calls') # {}
                  /\ attempt < max_retries - 1) =>
                    /\ ssl_fixed'
                    /\ model_name' = model_name
                    /\ lpc' = "loop"
              /\ (failed # "ok" /\ ~IsSslError(failed)) => model_name' = model_name]_vars

\* C25: the function never returns None: its caller never receives a value
\* without a model
C25_NeverReturnsNone ==
    /\ model # "None"
    /\ lpc # "caller_raised"
    /\ lpc = "raised" => (load_calls # <<>> /\ LastCall[2] # "ok")

----------------------------------------------------------------------------
(* The two transcription variants on the same segment and turns *)

\* C26: for the segment and the turns that transcribe_with_speakers merged,
\* the matching of transcribe.transcribe_audio can give one speaker only, and
\* it is the speaker transcribe_with_speakers recorded
C26_VariantsAgree ==
    pc = "save" =>
        TSpeakerChoices(TSegmentData(result[1]), speaker_segments)
            = {final_transcript[1].speaker}

----------------------------------------------------------------------------
(* rag_system.ResponsesAPIRAG.  A method call is one step: the object is   *)
(* used by one thread, and what the OpenAI client does in each call (it    *)
(* answers, answers without content, or raises) is chosen in the step.     *)

MaxExchanges == 3   \* most question/answer pairs in conversation_history
MaxUploads == 1     \* most entries of uploaded_files added by upload_file

Questions == {"q1", "q2"}
StoreIds == {"vs_1", "vs_2"}
FileIds == {"file_1", "file_2"}

FileInfo(id) == [file_id |-> id, filename |-> id \o ".json"]

\* the files the service holds in each vector store
StoreFiles(vs) == IF vs = "vs_1" THEN <<"file_1">> ELSE <<"file_2", "file_1">>

\* what client.responses.create does: a message with text, an output list
\* that is empty or None, output items without a message text, an exception
ResponsesOutcomes == {"answer", "empty_output", "missing_output", "no_text", "raise"}

\* what client.chat.completions.create does: a message with content, a
\* message whose content is the empty string, a message whose content is
\* None (its encode raises AttributeError, line 281), an exception
FallbackOutcomes == {"answer", "empty_content", "no_content", "raise"}

\* the fallback outcomes that reach the return of lines 289-294
FallbackReturns == {"answer", "empty_content"}

\* the result of a method call: the exception it raised if any, the value it
\* returned if any (no value is None), and what the client did
Ret(call, raised, value, did) ==
    [call |-> call, raised |-> raised, value |-> value, did |-> did]

RecentContextLastThree(history) ==
    SubSeq(history, Max2(1, Len(history) - 2), Len(history))

\* conversation_history[-4:]
RecentContext(history) ==
    SubSeq(history, Max2(1, Len(history) - 3), Len(history))

Exchange(question, answer) ==
    <<[role |-> "user", content |-> question],
      [role |-> "assistant", content |-> answer]>>

\* lines 226-231
ResponsesResult(answer, sources) ==
    [answer |-> answer, sources |-> sources, response_id |-> "resp_1",
     mode |-> "Responses API with file_search"]

\* lines 233-238
NoContentResult ==
    [answer |-> "No response generated from the API.", sources |-> <<>>,
     response_id |-> "None", mode |-> "Responses API (no content)"]

\* lines 289-294
FallbackResult(answer) ==
    [answer |-> answer,
     sources |-> [k \in DOMAIN uploaded_files |->
                    [filename |-> uploaded_files[k].filename,
                     citation |-> "Chat completion mode - general knowledge response"]],
     response_id |-> "None", mode |-> "Chat Completions (fallback)"]

\* lines 303-308
ErrorResult ==
    [answer |-> "Error: Could not process query.", sources |-> <<>>,
     response_id |-> "None", mode |-> "Error"]

\* create_vector_store, lines 13-21
CreateVectorStore ==
    /\ \/ /\ vector_store' \in StoreIds
          /\ returned' = Ret("create_vector_store", "none", {vector_store'}, "created")
       \/ /\ returned' = Ret("create_vector_store", "ValueError", {}, "raise")
          /\ UNCHANGED vector_store
    /\ UNCHANGED <<uploaded_files, conversation_history, sent>>
    /\ UNCHANGED <<mergeVars, batchVars, workerVars, videoVars, loaderVars>>

\* upload_file, lines 23-54
UploadFile ==
    /\ Len(uploaded_files) < MaxUploads
    /\ \E id \in FileIds :
          \/ /\ vector_store # "None"
             /\ uploaded_files' = Append(uploaded_files, FileInfo(id))
             /\ returned' = Ret("upload_file", "none", {id}, "uploaded")
          \/ /\ returned' = Ret("upload_file", "Exception", {}, "raise")
             /\ UNCHANGED uploaded_files
    /\ UNCHANGED <<vector_store, conversation_history, sent>>
    /\ UNCHANGED <<mergeVars, batchVars, workerVars, videoVars, loaderVars>>

\* query, lines 85-86: no vector store
QueryNoStore ==
    /\ vector_store = "None"
    /\ returned' = Ret("query", "ValueError", {}, "none")
    /\ UNCHANGED <<vector_store, uploaded_files, conversation_history, sent>>
    /\ UNCHANGED <<mergeVars, batchVars, workerVars, videoVars, loaderVars>>

\* query, lines 88-243, and _fallback_query, lines 245-308
Query ==
    /\ vector_store # "None"
    /\ Len(conversation_history) < 2 * MaxExchanges
    /\ \E question \in Questions, api \in ResponsesOutcomes, fb \in FallbackOutcomes :
          /\ sent' = RecentContext(conversation_history)
          /\ CASE api = "answer" ->
                    /\ conversation_history' =
                          conversation_history \o Exchange(question, "a1")
                    /\ returned' = Ret("query", "none",
                                       {ResponsesResult("a1", <<FileInfo("file_1")>>)},
                                       <<api, "none">>)
               [] api = "no_text" ->
                    /\ returned' = Ret("query", "none", {NoContentResult}, <<api, "none">>)
                    /\ UNCHANGED conversation_history
               [] api \in {"empty_output", "missing_output"} ->
                    \* the if of line 141 has no else: the function ends
                    /\ returned' = Ret("query", "none", {}, <<api, "none">>)
                    /\ UNCHANGED conversation_history
               [] api = "raise" /\ fb \in FallbackReturns ->
                    LET answer == IF fb = "answer" THEN "a2" ELSE ""
                    IN  /\ conversation_history' =
                              conversation_history \o Exchange(question, answer)
                        /\ returned' = Ret("query", "none",
                                           {FallbackResult(answer)}, <<api, fb>>)
               [] api = "raise" /\ fb \notin FallbackReturns ->
                    /\ returned' = Ret("query", "none", {ErrorResult}, <<api, fb>>)
                    /\ UNCHANGED conversation_history
    /\ UNCHANGED <<vector_store, uploaded_files>>
    /\ UNCHANGED <<mergeVars, batchVars, workerVars, videoVars, loaderVars>>

\* clear_history, lines 314-316
ClearHistory ==
    /\ conversation_history' = <<>>
    /\ returned' = Ret("clear_history", "none", {}, "none")
    /\ UNCHANGED <<vector_store, uploaded_files, sent>>
    /\ UNCHANGED <<mergeVars, batchVars, workerVars, videoVars, loaderVars>>

\* new_conversation, lines 366-369
NewConversation ==
    /\ conversation_history' = <<>>
    /\ returned' = Ret("new_conversation", "none", {}, "none")
    /\ UNCHANGED <<vector_store, uploaded_files, sent>>
    /\ UNCHANGED <<mergeVars, batchVars, workerVars, videoVars, loaderVars>>

\* connect_to_vector_store, lines 341-364: vector_stores.retrieve, files.list
\* and files.retrieve for the first n files succeed, then a call raises
\* (n = -2: retrieve raises; n = -1: files.list raises), or none does
ConnectToVectorStore ==
    /\ \E vs \in StoreIds :
          \E n \in (-2)..Len(StoreFiles(vs)) :
             LET details == [k \in 1..Max2(n, 0) |-> FileInfo(StoreFiles(vs)[k])]
             IN  /\ vector_store' = IF n = -2 THEN vector_store ELSE vs
                 /\ uploaded_files' = IF n < 0 THEN uploaded_files ELSE details
                 /\ returned' = Ret("connect_to_vector_store", "none",
                                    {n = Len(StoreFiles(vs))}, <<vs, n>>)
    /\ UNCHANGED <<conversation_history, sent>>
    /\ UNCHANGED <<mergeVars, batchVars, workerVars, videoVars, loaderVars>>

InitRag ==
    /\ NoTranscription
    /\ NoLoader
    /\ NoRag

NextRag ==
    \/ CreateVectorStore
    \/ UploadFile
    \/ QueryNoStore
    \/ Query
    \/ ClearHistory
    \/ NewConversation
    \/ ConnectToVectorStore

SpecRag == InitRag /\ [][NextRag]_vars

ResultFields == {"answer", "sources", "response_id", "mode"}

\* C24: a query on an object whose vector store is set raises nothing and
\* returns one record with answer, sources, response_id and mode, whatever
\* the two API calls did; when the Responses API raised, the record is the
\* fallback's, with mode "Error" when the fallback failed too; a query on an
\* object without vector store raises ValueError
C24_QueryAlwaysReturnsRecord ==
    returned.call = "query" =>
        IF vector_store = "None"
        THEN returned.raised = "ValueError"
        ELSE /\ returned.raised = "none"
             /\ Cardinality(returned.value) = 1
             /\ \A r \in returned.value :
                   /\ DOMAIN r = ResultFields
                   /\ returned.did[1] = "raise" =>
                         r.mode = IF returned.did[2] \in FallbackReturns
                                  THEN "Chat Completions (fallback)"
                                  ELSE "Error"

Answered ==
    /\ returned.call = "query"
    /\ \E r \in returned.value :
          r.mode \in {"Responses API with file_search", "Chat Completions (fallback)"}

C30_FailedConnectChangesNothing ==
    [][(returned'.call = "connect_to_vector_store" /\ returned'.value = {FALSE}) =>
          /\ vector_store' = vector_store
          /\ uploaded_files' = uploaded_files]_vars

====
